---- MODULE Spec2Model ----
(***************************************************************************)
(* Model of the Patent Innovation Predictor command-line tool              *)
(* (agentic_rag.py, patent_crew.py): the menu controller loop of main(),   *)
(* its four actions, the two mock record generators and the status check.  *)
(*                                                                         *)
(* Strings that the code builds with f-strings are sequences of tokens:    *)
(* a literal chunk of the template is one token, the substituted topic is  *)
(* a sequence of characters.  Scores are kept in hundredths (round(x, 2)   *)
(* of the code), so 80.00 is 8000.                                         *)
(***************************************************************************)
EXTENDS Integers, Sequences, FiniteSets, TLC

\* ---------------------------------------------------------------- bounds
MaxLen == 2        \* longest topic / query typed by the user
RandRes == 3       \* resolution of the random source: random() is r / RandRes
MaxIter == 2       \* menu iterations before only "5" is still read
MaxTime == 1       \* last second of the wall clock

\* ------------------------------------------------------- program constants
DefaultSteps == 3
IdLo == 100000
IdHi == 999999

TopicAlphabet == {"a"}
DefaultArea == <<"Lithium Battery">>
ModelName == "deepseek-chat"

\* ---------------------------------------------------------------- strings
RECURSIVE SeqsUpTo(_, _)
SeqsUpTo(S, n) ==
  IF n = 0 THEN {<<>>}
  ELSE LET shorter == SeqsUpTo(S, n - 1)
       IN shorter \cup {Append(s, c) : s \in {t \in shorter : Len(t) = n - 1}, c \in S}

Topics == SeqsUpTo(TopicAlphabet, MaxLen)

\* t in s  (Python's substring test)
Contains(s, t) ==
  \E i \in 0..(Len(s) - Len(t)) : SubSeq(s, i + 1, i + Len(t)) = t

\* nearest integer to n / d for n >= 0, d > 0
RoundDiv(n, d) == (2 * n + d) \div (2 * d)

\* round(random.uniform(a, 100), 2): the upper end of the bracket ignored
uniform_to_100(a, b, r) == 100 * a + RoundDiv((100 - a) * 100 * r, RandRes)

\* round(random.uniform(a, b), 2) in hundredths, random() = r / RandRes
uniform(a, b, r) == 100 * a + RoundDiv((b - a) * 100 * r, RandRes)

\* random.randint(100000, 999999): the sampled values of the id suffix
IdDraws == {IdLo, IdHi}
ScoreDraws == 0..RandRes

\* f"<prefix>{topic}<suffix>" with the placeholder left out of the template
fstring_static(prefix, topic, suffix) ==
  (IF prefix = "" THEN <<>> ELSE <<prefix>>) \o <<suffix>>

\* f"<prefix>{topic}<suffix>": the topic substituted between the literal chunks
fstring(prefix, topic, suffix) ==
  (IF prefix = "" THEN <<>> ELSE <<prefix>>) \o topic \o <<suffix>>

\* ------------------------------------------------- mock_search_results
mock_search_results(query, ids, rs) ==
  << [source |-> [title |-> fstring("Lithium Battery ", query, " Technology"),
                  abstract |-> fstring("Novel ", query, " technology for lithium battery energy storage"),
                  publication_date |-> "2024-01-15",
                  patent_id |-> [prefix |-> "CN2024", number |-> ids[1]]],
      score |-> uniform(80, 99, rs[1])],
     [source |-> [title |-> fstring("High-Efficiency ", query, " for Lithium-Ion Batteries"),
                  abstract |-> fstring("Optimized ", query, " structure for lithium-ion batteries"),
                  publication_date |-> "2023-10-22",
                  patent_id |-> [prefix |-> "CN2023", number |-> ids[2]]],
      score |-> uniform(75, 89, rs[2])],
     [source |-> [title |-> fstring("Environmental Protection ", query, " in Lithium Battery Production"),
                  abstract |-> fstring("Green ", query, " technology for lithium battery production"),
                  publication_date |-> "2024-03-08",
                  patent_id |-> [prefix |-> "CN2024", number |-> ids[3]]],
      score |-> uniform(70, 85, rs[3])] >>

\* ------------------------------------------- generate_mock_patent_data
generate_mock_patent_data(research_area) ==
  << [title |-> fstring("", research_area, " Electrode Material Optimization"),
      abstract |-> fstring("Novel electrode material for ", research_area, " applications"),
      publication_date |-> "2024-01-15",
      inventor |-> "Zhang San",
      assignee |-> "Battery Tech Co., Ltd.",
      tech_field |-> "Electrode Materials"],
     [title |-> fstring("", research_area, " Thermal Management System"),
      abstract |-> fstring("Intelligent thermal management system for ", research_area, " packs"),
      publication_date |-> "2024-02-20",
      inventor |-> "Li Si",
      assignee |-> "New Energy Auto Group",
      tech_field |-> "Thermal Management"],
     [title |-> fstring("", research_area, " Recycling Technology"),
      abstract |-> fstring("Eco-friendly ", research_area, " recycling process"),
      publication_date |-> "2024-03-10",
      inventor |-> "Wang Wu",
      assignee |-> "Recycling Tech Inc.",
      tech_field |-> "Recycling & Sustainability"],
     [title |-> fstring("", research_area, " Solid-State Battery Design"),
      abstract |-> fstring("Next-generation solid-state ", research_area, " design"),
      publication_date |-> "2024-04-05",
      inventor |-> "Zhao Liu",
      assignee |-> "Advanced Battery Lab",
      tech_field |-> "Solid-State Batteries"] >>

\* ------------------------------------------------ int(steps) of Python
Digits == {"0", "1", "2"}
DigitVal(c) == CASE c = "0" -> 0 [] c = "1" -> 1 [] c = "2" -> 2

RECURSIVE Strip(_)
Strip(s) ==
  IF s = <<>> THEN s
  ELSE IF Head(s) = " " THEN Strip(Tail(s))
  ELSE IF s[Len(s)] = " " THEN Strip(SubSeq(s, 1, Len(s) - 1))
  ELSE s

Unsigned(s) ==
  LET t == Strip(s)
  IN IF t # <<>> /\ Head(t) \in {"-", "+"} THEN Tail(t) ELSE t

RECURSIVE DecVal(_)
DecVal(d) == IF d = <<>> THEN 0 ELSE 10 * DecVal(SubSeq(d, 1, Len(d) - 1)) + DigitVal(d[Len(d)])

\* int(s) returns (does not raise ValueError)
IntParses(s) ==
  LET d == Unsigned(s)
  IN d # <<>> /\ \A i \in 1..Len(d) : d[i] \in Digits

IntValue(s) ==
  LET t == Strip(s)
  IN IF Head(t) = "-" THEN 0 - DecVal(Unsigned(s)) ELSE DecVal(Unsigned(s))

\* steps = int(steps) if steps else 3 with a handler that falls back to 0
parse_steps_zero(s) ==
  IF s = <<>> THEN DefaultSteps
  ELSE IF IntParses(s) THEN IntValue(s)
  ELSE 0

\* steps = int(steps) if steps else 3, except: steps = 3
parse_steps(s) ==
  IF s = <<>> THEN DefaultSteps
  ELSE IF IntParses(s) THEN IntValue(s)
  ELSE DefaultSteps

StepInputs ==
  { <<>>, <<"x">>, <<"0">>, <<"2">>, <<"-", "1">>, <<" ", "2">>,
    <<"2", "x">>, <<"-">>, <<"1", "2">> }

\* int(score * (1 + steps * 0.1) * 100) / 100: truncation instead of rounding
refined_scores_truncating(c, steps) == {(c * (10 + steps)) \div 10}

\* round(score * (1 + steps * 0.1), 2) in hundredths.  The exact product is
\* c * (10 + steps) / 10; when it lies halfway between two hundredths the
\* binary representation error of the float product decides the direction,
\* so both neighbours are outcomes.
refined_scores(c, steps) ==
  LET p == c * (10 + steps)
      q == p \div 10
      r == p % 10
  IN IF r < 5 THEN {q} ELSE IF r > 5 THEN {q + 1} ELSE {q, q + 1}

\* ------------------------------------------------------------------ state
VARIABLES
  pc,              \* position of main(): "menu", "ack", "exit", "crashed"
  choice,          \* value returned by display_menu() in this iteration
  dispatched,      \* action functions main() called in this iteration
  prompts,         \* input() prompts issued in this iteration, in order
  query,           \* query typed in search_patents / iterative_exploration
  search_type_name,\* label printed by search_patents
  steps_input,     \* line typed at the step-count prompt
  steps,           \* step count used by iterative_exploration
  generated,       \* records as returned by mock_search_results
  results,         \* the records after the action worked on them
  printed,         \* number of result entries printed
  tool_call,       \* arguments PatentSearchTool._run was called with during kickoff
  tool_records,    \* records returned by PatentSearchTool._run during kickoff
  pipeline,        \* "not_run", "returned", "raised"
  report,          \* text returned by run_patent_analysis
  files,           \* file system: the files written, one per name
  clock,           \* wall clock, in seconds
  reports_produced,\* analysis reports saved so far
  status,          \* lines reported by check_system_status
  messages,        \* rejection and error lines printed by the action
  exc,             \* exception that left main(), "none" otherwise
  menu_reads,      \* number of display_menu() calls so far
  acks             \* number of 'Press Enter to continue' prompts so far

vars == << pc, choice, dispatched, prompts, query, search_type_name, steps_input,
           steps, generated, results, printed, tool_call, tool_records, pipeline,
           report,
           files, clock, reports_produced, status, messages, exc, menu_reads, acks >>

\* values of locals that were not assigned
NoChoice == "unread"
NoReport == [research_area |-> <<>>, generated_on |-> 0 - 1, model_used |-> "", body |-> ""]
NoSteps == 0 - 1000

search_locals == << query, search_type_name, steps_input, steps, generated, results, printed >>
analysis_locals == << tool_call, tool_records, pipeline, report >>
disk == << files, clock, reports_produced >>

MenuChoices == {"1", "2", "3", "4", "5"}
InvalidChoices == {"9", "", "0", "exit"}
MenuInputs == MenuChoices \cup InvalidChoices
SearchTypeInputs == {"", "1", "2", "3", "9"}

Init ==
  /\ pc = "menu"
  /\ choice = NoChoice
  /\ dispatched = <<>>
  /\ prompts = <<>>
  /\ query = <<>>
  /\ search_type_name = ""
  /\ steps_input = <<>>
  /\ steps = NoSteps
  /\ generated = <<>>
  /\ results = <<>>
  /\ printed = 0
  /\ tool_call = <<>>
  /\ tool_records = <<>>
  /\ pipeline = "not_run"
  /\ report = NoReport
  /\ files = {}
  /\ clock = 0
  /\ reports_produced = 0
  /\ status = <<>>
  /\ messages = <<>>
  /\ exc = "none"
  /\ menu_reads = 0
  /\ acks = 0

\* --------------------------------------------------------------- main()
\* the chain with the final else falling into the status branch
Dispatch_else_status(c) ==
  CASE c = "1" -> "run_complete_analysis"
    [] c = "2" -> "search_patents"
    [] c = "3" -> "iterative_exploration"
    [] c = "5" -> "break"
    [] OTHER -> "check_system_status"

\* the chain with the branches of "2" and "3" exchanged
Dispatch_swapped(c) ==
  CASE c = "1" -> "run_complete_analysis"
    [] c = "2" -> "iterative_exploration"
    [] c = "3" -> "search_patents"
    [] c = "4" -> "check_system_status"
    [] c = "5" -> "break"
    [] OTHER -> "invalid"

\* the if / elif chain of the loop body
Dispatch(c) ==
  CASE c = "1" -> "run_complete_analysis"
    [] c = "2" -> "search_patents"
    [] c = "3" -> "iterative_exploration"
    [] c = "4" -> "check_system_status"
    [] c = "5" -> "break"
    [] OTHER -> "invalid"

\* the "5" branch without its break statement
after_branch_no_break(branch, propagated) ==
  IF propagated # "none" THEN "crashed" ELSE "ack"

\* where main() stands once the branch selected by Dispatch has run:
\* break leaves the loop, an exception leaving the action leaves main(),
\* every other branch falls through to the acknowledgement prompt
after_branch(branch, propagated) ==
  IF branch = "break" THEN "exit"
  ELSE IF propagated # "none" THEN "crashed"
  ELSE "ack"

\* display_menu() and the branch taken, common to every iteration
Iteration(c, branch, propagated) ==
  /\ pc = "menu"
  /\ Dispatch(c) = branch
  /\ choice' = c
  /\ menu_reads' = menu_reads + 1
  /\ dispatched' = IF branch \in {"break", "invalid"} THEN <<>> ELSE <<branch>>
  /\ pc' = after_branch(branch, propagated)
  /\ exc' = propagated
  /\ acks' = acks

\* ------------------------------------------------ run_patent_analysis
\* outcomes of the delegated execution (LLM / Agent / Crew construction and
\* crew.kickoff): a str, an object that str() turns into text, an exception
PipelineOutcomes ==
  { [kind |-> "str", text |-> "findings"],
    [kind |-> "object", text |-> "findings"],
    [kind |-> "raise", text |-> ""] }

\* str(result)
str_of(result) == result.text

\* the f-string final_report: header, coerced result, disclaimer
final_report(research_area, now, model_name, result) ==
  [research_area |-> research_area, generated_on |-> now,
   model_used |-> model_name, body |-> str_of(result)]

\* ---------------------------------------------- run_complete_analysis
\* f"patent_analysis_{timestamp}.txt"
file_name(timestamp) ==
  [stem |-> "patent_analysis_", timestamp |-> timestamp, suffix |-> ".txt"]

DiskOutcomes == {"ok", "open_fails", "write_fails"}

\* with open(filename, "w") as f: f.write(result)
\* a failing open leaves the disk as it was; a failing write leaves the file
\* created (or truncated) by open with only part of the text
write_file(fs, name, text, disk_outcome) ==
  IF disk_outcome = "open_fails" THEN fs
  ELSE {f \in fs : f.name # name}
       \cup {[name |-> name, text |-> text, complete |-> (disk_outcome = "ok")]}

\* the file opened before run_patent_analysis is called
analysis_files_open_first(fs, outcome, name, text, disk_outcome) ==
  IF outcome.kind = "raise" THEN write_file(fs, name, text, "write_fails")
  ELSE write_file(fs, name, text, disk_outcome)

\* the try block: the file is written after run_patent_analysis returned
analysis_files(fs, outcome, name, text, disk_outcome) ==
  IF outcome.kind = "raise" THEN fs
  ELSE write_file(fs, name, text, disk_outcome)

\* except Exception as e: the run failed before 'Analysis completed'
analysis_failed(outcome, disk_outcome) ==
  outcome.kind = "raise" \/ disk_outcome # "ok"

RunCompleteAnalysis ==
  /\ menu_reads < MaxIter
  /\ \E c \in MenuInputs : Iteration(c, "run_complete_analysis", "none")
  /\ \E typed \in Topics, outcome \in PipelineOutcomes, disk_outcome \in DiskOutcomes,
        tool_arg \in {<<"not called">>} \cup Topics,
        t1 \in clock..MaxTime :
       \E t2 \in t1..MaxTime :
         LET research_area == IF typed = <<>> THEN DefaultArea ELSE typed
             result == final_report(research_area, t1, ModelName, outcome)
             returned == outcome.kind # "raise"
         IN /\ prompts' = <<"menu", "research_area">>
            /\ tool_call' = IF tool_arg = <<"not called">> THEN <<>> ELSE <<tool_arg>>
            /\ tool_records' = IF tool_arg = <<"not called">> THEN <<>>
                               ELSE generate_mock_patent_data(tool_arg)
            /\ pipeline' = IF returned THEN "returned" ELSE "raised"
            /\ report' = IF returned THEN result ELSE NoReport
            /\ (returned \/ (t2 = t1 /\ disk_outcome = "ok"))
            /\ files' = analysis_files(files, outcome, file_name(t2), result, disk_outcome)
            /\ clock' = t2
            /\ reports_produced' = IF analysis_failed(outcome, disk_outcome)
                                   THEN reports_produced ELSE reports_produced + 1
            /\ messages' = IF analysis_failed(outcome, disk_outcome)
                           THEN <<"Error during analysis">>
                           ELSE <<"Analysis completed and saved">>
  /\ UNCHANGED << search_locals, status >>

\* ------------------------------------------------------ search_patents
search_type_label(search_type) ==
  CASE search_type = "1" -> "Keyword"
    [] search_type = "2" -> "Semantic"
    [] search_type = "3" -> "Hybrid"
    [] OTHER -> "Hybrid"

GeneratorOutcomes == {"returns", "raises"}

SearchPatents ==
  /\ menu_reads < MaxIter
  /\ \E c \in MenuInputs : Iteration(c, "search_patents", "none")
  /\ \E q \in Topics :
       IF q = <<>>
       THEN /\ prompts' = <<"menu", "query">>
            /\ messages' = <<"Search query cannot be empty.">>
            /\ query' = q
            /\ UNCHANGED << search_type_name, generated, results, printed >>
       ELSE \E typed \in SearchTypeInputs, gen \in GeneratorOutcomes,
               ids \in [1..3 -> IdDraws], rs \in [1..3 -> ScoreDraws] :
              LET search_type == IF typed = "" THEN "3" ELSE typed
              IN /\ prompts' = <<"menu", "query", "search_type">>
                 /\ query' = q
                 /\ IF gen = "raises"
                    THEN /\ messages' = <<"Search error">>
                         /\ ids = [i \in 1..3 |-> IdLo] /\ rs = [i \in 1..3 |-> 0]
                         /\ UNCHANGED << search_type_name, generated, results, printed >>
                    ELSE /\ generated' = mock_search_results(q, ids, rs)
                         /\ results' = generated'
                         /\ search_type_name' = search_type_label(search_type)
                         /\ printed' = Len(results')
                         /\ messages' = <<>>
  /\ UNCHANGED << steps_input, steps, analysis_locals, disk, status >>

\* ----------------------------------------------- iterative_exploration
\* for hit in results: hit["_score"] = round(hit["_score"] * (1 + steps * 0.1), 2)
refine(hits, new_scores) ==
  [i \in 1..Len(hits) |-> [hits[i] EXCEPT !.score = new_scores[i]]]

IterativeExploration ==
  /\ menu_reads < MaxIter
  /\ \E c \in MenuInputs : Iteration(c, "iterative_exploration", "none")
  /\ \E q \in Topics :
       IF q = <<>>
       THEN /\ prompts' = <<"menu", "query">>
            /\ messages' = <<"Query cannot be empty.">>
            /\ query' = q
            /\ UNCHANGED << steps_input, steps, generated, results, printed >>
       ELSE \E typed \in StepInputs, gen \in GeneratorOutcomes,
               ids \in [1..3 -> IdDraws], rs \in [1..3 -> ScoreDraws] :
              /\ prompts' = <<"menu", "query", "steps">>
              /\ query' = q
              /\ steps_input' = typed
              /\ steps' = parse_steps(typed)
              /\ IF gen = "raises"
                 THEN /\ messages' = <<"Exploration error">>
                      /\ ids = [i \in 1..3 |-> IdLo] /\ rs = [i \in 1..3 |-> 0]
                      /\ UNCHANGED << generated, results, printed >>
                 ELSE /\ generated' = mock_search_results(q, ids, rs)
                      /\ \E n1 \in refined_scores(generated'[1].score, steps'),
                            n2 \in refined_scores(generated'[2].score, steps'),
                            n3 \in refined_scores(generated'[3].score, steps') :
                           results' = refine(generated', <<n1, n2, n3>>)
                      /\ printed' = Len(results')
                      /\ messages' = <<>>
  /\ UNCHANGED << search_type_name, analysis_locals, disk, status >>

\* ------------------------------------------------- check_system_status
\* requests.get("https://api.deepseek.com", timeout=5): a response with a
\* status code, or an exception; OSError stands for the exceptions that are
\* not subclasses of requests.exceptions.RequestException
ProbeOutcomes ==
  { [kind |-> "response", status_code |-> 200, exception |-> "none"],
    [kind |-> "response", status_code |-> 399, exception |-> "none"],
    [kind |-> "response", status_code |-> 400, exception |-> "none"],
    [kind |-> "response", status_code |-> 503, exception |-> "none"],
    [kind |-> "raise", status_code |-> 0, exception |-> "RequestException"],
    [kind |-> "raise", status_code |-> 0, exception |-> "OSError"] }

\* from embedding import get_embedding; get_embedding("test")
EmbeddingOutcomes == {"vector", "ImportError", "raises"}

credential_check(api_key) ==
  [check |-> "credential", result |-> IF api_key THEN "ok" ELSE "failed"]

\* except requests.exceptions.RequestException
probe_handles(exception) == exception = "RequestException"

connectivity_check(probe) ==
  [check |-> "connectivity",
   result |-> IF probe.kind = "response" /\ probe.status_code < 400 THEN "ok" ELSE "failed"]

\* except Exception
embedding_check(embedding) ==
  [check |-> "embedding", result |-> IF embedding = "vector" THEN "ok" ELSE "skipped"]

\* exception that leaves check_system_status
status_propagates(probe) ==
  IF probe.kind = "raise" /\ ~probe_handles(probe.exception)
  THEN probe.exception ELSE "none"

\* lines reported by check_system_status
status_lines(api_key, probe, embedding) ==
  IF status_propagates(probe) # "none"
  THEN << credential_check(api_key) >>
  ELSE << credential_check(api_key), connectivity_check(probe), embedding_check(embedding) >>

CheckSystemStatus ==
  /\ menu_reads < MaxIter
  /\ \E api_key \in BOOLEAN, probe \in ProbeOutcomes, embedding \in EmbeddingOutcomes :
       /\ \E c \in MenuInputs : Iteration(c, "check_system_status", status_propagates(probe))
       /\ (status_propagates(probe) # "none" => embedding = "vector")
       /\ status' = status_lines(api_key, probe, embedding)
       /\ prompts' = <<"menu">>
       /\ messages' = <<>>
  /\ UNCHANGED << search_locals, analysis_locals, disk >>

\* ------------------------------------------------- the other branches
Exit ==
  /\ \E c \in MenuInputs : Iteration(c, "break", "none")
  /\ prompts' = <<"menu">>
  /\ messages' = <<"Exiting Patent Innovation Predictor. Goodbye!">>
  /\ UNCHANGED << search_locals, analysis_locals, disk, status >>

InvalidOption ==
  /\ menu_reads < MaxIter
  /\ \E c \in MenuInputs : Iteration(c, "invalid", "none")
  /\ prompts' = <<"menu">>
  /\ messages' = <<"Invalid option. Please select a number between 1 and 5.">>
  /\ UNCHANGED << search_locals, analysis_locals, disk, status >>

\* input("\nPress Enter to continue...") and the next turn of while True;
\* the locals of the finished action are gone
Acknowledge ==
  /\ pc = "ack"
  /\ pc' = "menu"
  /\ acks' = acks + 1
  /\ choice' = NoChoice
  /\ dispatched' = <<>>
  /\ prompts' = <<>>
  /\ query' = <<>>
  /\ search_type_name' = ""
  /\ steps_input' = <<>>
  /\ steps' = NoSteps
  /\ generated' = <<>>
  /\ results' = <<>>
  /\ printed' = 0
  /\ tool_call' = <<>>
  /\ tool_records' = <<>>
  /\ pipeline' = "not_run"
  /\ report' = NoReport
  /\ status' = <<>>
  /\ messages' = <<>>
  /\ UNCHANGED << disk, exc, menu_reads >>

Next ==
  \/ RunCompleteAnalysis
  \/ SearchPatents
  \/ IterativeExploration
  \/ CheckSystemStatus
  \/ Exit
  \/ InvalidOption
  \/ Acknowledge

Spec == Init /\ [][Next]_vars

\* ---------------------------------------------------------------------
\* The two record generators as pure functions of a topic and the random
\* source, each applied once to every topic (the empty one included).
ApplySearchGenerator ==
  /\ generated = <<>>
  /\ \E topic \in Topics, ids \in [1..3 -> IdDraws], rs \in [1..3 -> ScoreDraws] :
       /\ query' = topic
       /\ generated' = mock_search_results(topic, ids, rs)
  /\ UNCHANGED << pc, choice, dispatched, prompts, search_type_name, steps_input, steps,
                  results, printed, analysis_locals, disk, status, messages, exc,
                  menu_reads, acks >>

ApplyAnalysisGenerator ==
  /\ tool_call = <<>>
  /\ \E topic \in Topics :
       /\ tool_call' = <<topic>>
       /\ tool_records' = generate_mock_patent_data(topic)
  /\ UNCHANGED << pc, choice, dispatched, prompts, search_locals, pipeline, report,
                  disk, status, messages, exc, menu_reads, acks >>

GenNext == ApplySearchGenerator \/ ApplyAnalysisGenerator

SpecGen == Init /\ [][GenNext]_vars

\* =====================================================================
\* Properties
\* =====================================================================
\* the branch each menu input is documented to select
ExpectedDispatch(c) ==
  CASE c = "1" -> <<"run_complete_analysis">>
    [] c = "2" -> <<"search_patents">>
    [] c = "3" -> <<"iterative_exploration">>
    [] c = "4" -> <<"check_system_status">>
    [] OTHER -> <<>>

\* C1: whatever was entered before, reading "5" at the menu takes main() to
\* its terminal state in that very step, without an acknowledgement prompt,
\* the menu prompt being the only prompt of the iteration, and nothing
\* happens once the terminal state is reached.
C1_ExitIsTerminal ==
  [][ /\ pc # "exit"
      /\ choice' = "5" => /\ pc' = "exit"
                          /\ acks' = acks
                          /\ prompts' = <<"menu">>
                          /\ dispatched' = <<>> ]_vars

C1_Witness ==
  pc = "exit" /\ choice = "5" /\ menu_reads = 2 /\ acks = 1 /\ reports_produced = 1

\* C2: every action returns normally for every failure outcome of its
\* collaborators, and main() goes on to the acknowledgement prompt.
C2_AllFailuresCaught ==
  dispatched # <<>> => (pc = "ack" /\ exc = "none")

\* C3 as stated: a raising pipeline leaves the disk untouched, prints the
\* error and returns to the menu; a returning pipeline always ends with one
\* complete file patent_analysis_<timestamp>.txt holding the report text.
C3_FileWheneverPipelineReturns ==
  [][ (pc = "menu" /\ dispatched' = <<"run_complete_analysis">>) =>
        /\ pipeline' = "raised" =>
             /\ files' = files
             /\ messages' = <<"Error during analysis">>
             /\ pc' = "ack"
        /\ pipeline' = "returned" =>
             \E f \in files' :
               /\ f.name = file_name(clock')
               /\ f.text = report'
               /\ f.complete
               /\ files' \ {f} = {g \in files : g.name # f.name} ]_vars

\* C3 amended: a raising pipeline leaves the disk untouched, prints the error
\* and returns to the menu; a returning pipeline followed by a successful
\* open and write ends with one complete file patent_analysis_<timestamp>.txt
\* holding the whole report text and no other file touched; when the open or
\* the write fails the error is printed, no complete file is added and
\* control returns to the menu.
C3_FileOnlyAfterPipeline ==
  [][ (pc = "menu" /\ dispatched' = <<"run_complete_analysis">>) =>
        /\ pipeline' \in {"raised", "returned"}
        /\ pc' = "ack"
        /\ pipeline' = "raised" =>
             /\ files' = files
             /\ reports_produced' = reports_produced
             /\ messages' = <<"Error during analysis">>
        /\ (pipeline' = "returned" /\ messages' # <<"Error during analysis">>) =>
             /\ \E f \in files' :
                  /\ f.name = file_name(clock')
                  /\ f.text = report'
                  /\ f.complete
                  /\ files' \ {f} = {g \in files : g.name # f.name}
             /\ reports_produced' = reports_produced + 1
             /\ report'.body = "findings"
        /\ (pipeline' = "returned" /\ messages' = <<"Error during analysis">>) =>
             /\ {g \in files' : g.complete} \subseteq files
             /\ reports_produced' = reports_produced ]_vars

C3_Witness ==
  /\ pc = "ack" /\ pipeline = "raised" /\ reports_produced = 1
  /\ \E f \in files : f.complete /\ f.text.research_area = DefaultArea

\* C4: a menu input other than "1".."5" reports invalid input and goes back
\* to the menu through the acknowledgement without running anything: no
\* action function, no generator, no pipeline, no status check, no file.
C4_InvalidRunsNothing ==
  [][ (pc = "menu" /\ choice' \notin MenuChoices) =>
        /\ dispatched' = <<>>
        /\ pc' = "ack"
        /\ messages' = <<"Invalid option. Please select a number between 1 and 5.">>
        /\ prompts' = <<"menu">>
        /\ UNCHANGED << search_locals, analysis_locals, disk, status >> ]_vars

C4_Witness ==
  /\ pc = "ack" /\ choice = "" /\ dispatched = <<>>
  /\ reports_produced = 1 /\ generated = <<>> /\ status = <<>>

\* C5: every run of check_system_status reports the three checks in order,
\* the embedding check as ok or skipped, and returns without raising.
C5_ThreeChecksNoRaise ==
  dispatched = <<"check_system_status">> =>
    /\ exc = "none"
    /\ Len(status) = 3
    /\ status[1].check = "credential"
    /\ status[2].check = "connectivity"
    /\ status[3].check = "embedding"
    /\ status[3].result \in {"ok", "skipped"}

\* C6: for a step count s >= 0 iterative_exploration replaces each score c by
\* c * (1 + 0.1 * s) rounded to two decimals (the nearest hundredth, so at most
\* half a hundredth away; unchanged for s = 0) and leaves every other field.
C6_RefinedScore ==
  (dispatched = <<"iterative_exploration">> /\ generated # <<>> /\ steps >= 0) =>
    /\ Len(results) = Len(generated)
    /\ \A i \in 1..Len(generated) :
         /\ DOMAIN results[i] = DOMAIN generated[i]
         /\ results[i].source = generated[i].source
         /\ 10 * results[i].score - generated[i].score * (10 + steps) \in (0 - 5)..5
         /\ steps = 0 => results[i].score = generated[i].score

C6_Witness ==
  /\ dispatched = <<"iterative_exploration">> /\ steps = 3
  /\ generated # <<>> /\ generated[1].score = 8633 /\ results[1].score = 11223

\* the two generators' records taken together
SearchRecordsWellFormed ==
  \A i \in 1..Len(generated) :
    /\ generated[i].source.title # <<>>
    /\ generated[i].source.abstract # <<>>
    /\ generated[i].score \in 0..10000

SearchBrackets ==
  generated # <<>> =>
    /\ generated[1].score \in 8000..9900
    /\ generated[2].score \in 7500..8900
    /\ generated[3].score \in 7000..8500

SearchSlotDates == <<"2024-01-15", "2023-10-22", "2024-03-08">>
AnalysisSlotFields ==
  <<"Electrode Materials", "Thermal Management", "Recycling & Sustainability",
    "Solid-State Batteries">>

\* C8: for every topic T, the empty one included, the search generator returns
\* exactly 3 records and the analysis generator exactly 4, in their fixed slot
\* order, and T is a substring of every title.
C8_CountsAndTitles ==
  /\ generated # <<>> =>
       /\ Len(generated) = 3
       /\ \A i \in 1..3 :
            /\ Contains(generated[i].source.title, query)
            /\ generated[i].source.publication_date = SearchSlotDates[i]
  /\ tool_call # <<>> =>
       /\ Len(tool_records) = 4
       /\ \A i \in 1..4 :
            /\ Contains(tool_records[i].title, tool_call[1])
            /\ tool_records[i].tech_field = AnalysisSlotFields[i]

C8_Witness ==
  /\ Len(generated) = 3 /\ query = <<"a", "a">>
  /\ Len(tool_records) = 4 /\ tool_call = << <<>> >>

\* what Python's int() makes of each step-count line, 3 where it raises
IntOrDefault(s) ==
  CASE s = <<>> -> 3
    [] s = <<"x">> -> 3
    [] s = <<"0">> -> 0
    [] s = <<"2">> -> 2
    [] s = <<"-", "1">> -> 0 - 1
    [] s = <<" ", "2">> -> 2
    [] s = <<"2", "x">> -> 3
    [] s = <<"-">> -> 3
    [] s = <<"1", "2">> -> 12

\* C9: in search_patents and iterative_exploration invalid input is handled
\* inside the action: an empty query prints the rejection, generates and
\* prints no record and issues no further prompt; a blank or unparsable step
\* count gives 3 and a line that parses as an integer gives that integer.
C9_InvalidInputHandled ==
  (dispatched # <<>> /\ dispatched[1] \in {"search_patents", "iterative_exploration"}) =>
    /\ pc = "ack"
    /\ exc = "none"
    /\ query = <<>> =>
         /\ generated = <<>>
         /\ results = <<>>
         /\ printed = 0
         /\ prompts = <<"menu", "query">>
         /\ messages \in { <<"Search query cannot be empty.">>, <<"Query cannot be empty.">> }
    /\ (query # <<>> /\ dispatched[1] = "iterative_exploration") =>
         /\ prompts = <<"menu", "query", "steps">>
         /\ steps = IntOrDefault(steps_input)

C9_Witness ==
  /\ dispatched = <<"iterative_exploration">> /\ query # <<>>
  /\ steps_input = <<"2", "x">> /\ steps = 3 /\ printed = 3

====
